---- MODULE Spec2Model ----
(***************************************************************************)
(* Model of f1-messenger-app/mcp-bridge.py: the F1MCPBridge object (tool   *)
(* dispatch with the 2024 Ergast fallback, health metrics, JWT issue and   *)
(* verify) and the FastAPI endpoints that drive it (/mcp/tool, /health,    *)
(* /auth/token, /mcp/stream).                                              *)
(*                                                                         *)
(* All endpoints are coroutines of one asyncio event loop.  The dispatch   *)
(* path contains no real suspension point: call_mcp_tool calls the data    *)
(* function synchronously and ergast_fallback calls the blocking           *)
(* requests.get, so a dispatch holds the event loop from its first line    *)
(* to its return.  Time is counted in whole seconds.                       *)
(***************************************************************************)
EXTENDS Integers, Sequences, FiniteSets, TLC

VARIABLES
    tool_calls,        \* F1MCPBridge.tool_calls
    successful_calls,  \* F1MCPBridge.successful_calls
    errors_by_tool,    \* F1MCPBridge.errors_by_tool: dict, tool name -> count
    start_time,        \* F1MCPBridge.start_time
    now,               \* the wall clock, seconds
    disp,              \* the /mcp/tool request tasks: one record per task
    response,          \* the response to the latest request, none while it is handled
    tokens,            \* the tokens clients hold (issued by /auth/token)
    stream,            \* the /mcp/stream task and its websocket
    history            \* what has happened: dispatches started, primaries that raised

vars == <<tool_calls, successful_calls, errors_by_tool, start_time, now,
          disp, response, tokens, stream, history>>

----------------------------------------------------------------------------
(* Bounds of the model *)

\* number of /mcp/tool request tasks that can exist at once
NumDispatch == 2
\* no dispatch starts once tool_calls has reached this
MaxCalls == 2
\* longest driver list / race list the upstream returns
MaxDrivers == 11
\* the clock stops advancing here
MaxTime == 3602
\* tokens held by clients at once
MaxTokens == 1

(* Program constants *)

\* arguments.get('year') == 2024
FallbackYear == 2024
\* drivers[:10]
TopN == 10
\* timedelta(hours=1), in seconds
TokenLifetime == 3600
\* asyncio.sleep(30)
HeartbeatInterval == 30
\* response.status_code == 200
StatusOK == 200

\* the instants the clock takes: process start, one second later, and the
\* seconds around the expiry of a token issued at either
ClockPoints == {0, 1} \cup ((TokenLifetime - 1) .. MaxTime)

----------------------------------------------------------------------------
(* Python values *)

Min(a, b) == IF a <= b THEN a ELSE b

\* None
PyNone == [t |-> "none", i |-> 0, s |-> ""]
IntVal(n) == [t |-> "int", i |-> n, s |-> ""]
StrVal(x) == [t |-> "str", i |-> 0, s |-> x]

\* dict.get(key) with the default None
DictGet(d, k) == IF k \in DOMAIN d THEN d[k] ELSE PyNone

\* dict.get(key, 0) on a dict of counters
CountGet(d, k) == IF k \in DOMAIN d THEN d[k] ELSE 0

\* d[k] = v on a dict: the key is added when absent
DictSet(d, k, v) == [x \in DOMAIN d \cup {k} |-> IF x = k THEN v ELSE d[x]]

EmptyDict == [x \in {} |-> 0]

----------------------------------------------------------------------------
(* The tool registry *)

Standings == "get_championship_standings"
Schedule == "get_event_schedule"

tool_functions ==
    { "get_championship_standings", "get_event_schedule", "get_event_info",
      "get_session_results", "get_driver_info", "analyze_driver_performance",
      "compare_drivers", "get_telemetry" }

\* the exception call_mcp_tool raises for a name outside the registry:
\* Exception(f"Unknown tool: {tool_name}")
UnknownToolError(tool_name) ==
    [type |-> "Exception", origin |-> "primary", text |-> <<"Unknown tool: ", tool_name>>]

\* an exception raised by the data function itself
CapabilityError(tool_name) ==
    [type |-> "Exception", origin |-> "primary", text |-> <<"capability failed: ", tool_name>>]

\* what the data function returns
PrimaryResult(tool_name, arguments) ==
    [source |-> "primary", tool |-> tool_name, arguments |-> arguments]

----------------------------------------------------------------------------
(* The fallback upstream (ergast.com) and what requests.get can produce *)

StandingsUrl == "http://ergast.com/api/f1/2024/driverStandings.json"
ScheduleUrl == "http://ergast.com/api/f1/2024.json"

\* one entry of DriverStandings; the fields carry distinct values
UpstreamDriver(k) ==
    [ Driver |-> [code |-> <<"code", k>>, givenName |-> <<"given", k>>,
                  familyName |-> <<"family", k>>, nationality |-> <<"nat", k>>],
      points |-> <<"points", k>>, position |-> <<"position", k>>,
      wins |-> <<"wins", k>> ]

\* an entry whose Driver object has no 'code' key
DriverNoCode(k) ==
    [ Driver |-> [givenName |-> <<"given", k>>, familyName |-> <<"family", k>>,
                  nationality |-> <<"nat", k>>],
      points |-> <<"points", k>>, position |-> <<"position", k>>,
      wins |-> <<"wins", k>> ]

\* n well-formed drivers, in upstream order
DriverList(n) == [k \in 1..n |-> UpstreamDriver(k)]

\* the same list with entry bad replaced by one without a code
DriverListBadAt(n, bad) ==
    [k \in 1..n |-> IF k = bad THEN DriverNoCode(k) ELSE UpstreamDriver(k)]

StandingsJson(drivers) ==
    [MRData |-> [StandingsTable |->
        [season |-> "2024", StandingsLists |-> << [DriverStandings |-> drivers] >>]]]

\* a season for which the upstream has no standings list
StandingsJsonNoList ==
    [MRData |-> [StandingsTable |-> [season |-> "2024", StandingsLists |-> << >>]]]

UpstreamRace(k) ==
    [ raceName |-> <<"race", k>>, date |-> <<"date", k>>, round |-> <<"round", k>>,
      Circuit |-> [circuitName |-> <<"circuit", k>>, circuitId |-> <<"cid", k>>] ]

\* a race without a 'date' key
RaceNoDate(k) ==
    [ raceName |-> <<"race", k>>, round |-> <<"round", k>>,
      Circuit |-> [circuitName |-> <<"circuit", k>>, circuitId |-> <<"cid", k>>] ]

RaceList(n) == [k \in 1..n |-> UpstreamRace(k)]

RaceListBadAt(n, bad) ==
    [k \in 1..n |-> IF k = bad THEN RaceNoDate(k) ELSE UpstreamRace(k)]

ScheduleJson(races) == [MRData |-> [RaceTable |-> [season |-> "2024", Races |-> races]]]

\* a JSON object of another shape (an error document)
OtherJson == [error |-> "not found"]

\* lengths of the lists the upstream returns: empty, one, and around TopN
ListLengths == {0, 1} \cup ((TopN - 1) .. MaxDrivers)

JsonBodies(url) ==
    IF url = StandingsUrl
    THEN {StandingsJson(DriverList(n)) : n \in ListLengths}
         \cup {StandingsJson(DriverListBadAt(n, 1)) : n \in ListLengths \ {0}}
         \cup {StandingsJson(DriverListBadAt(MaxDrivers, MaxDrivers))}
         \cup {StandingsJsonNoList, OtherJson}
    ELSE {ScheduleJson(RaceList(n)) : n \in ListLengths}
         \cup {ScheduleJson(RaceListBadAt(MaxDrivers, MaxDrivers))}
         \cup {OtherJson}

\* what requests.get(url) does: it raises (connection refused, DNS failure),
\* or it returns a response with a status code and a body that is JSON or not
UpstreamReplies(url) ==
    {[kind |-> "transport_error"]}
    \cup {[kind |-> "response", status_code |-> StatusOK, is_json |-> FALSE]}
    \cup {[kind |-> "response", status_code |-> sc, is_json |-> TRUE, json |-> OtherJson] :
            sc \in {204, 404, 500}}
    \cup {[kind |-> "response", status_code |-> StatusOK, is_json |-> TRUE, json |-> b] :
            b \in JsonBodies(url)}

----------------------------------------------------------------------------
(* F1MCPBridge.ergast_fallback *)

\* what a block of code does: it raises, or it returns a value
Raised(err) == [raised |-> TRUE, error |-> err]
Returned(v) == [raised |-> FALSE, value |-> v]

\* an exception raised inside ergast_fallback's try block
FallbackError(what) == [type |-> what, origin |-> "fallback", text |-> <<what>>]

\* the placeholder reply of a call that issues no request
NoReply == [kind |-> "none"]
NoUrl == ""

\* a fallback whose last branch is an else: every other name asks for the schedule
FallbackUrlElse(tool_name) ==
    IF tool_name = Standings THEN StandingsUrl ELSE ScheduleUrl

\* the request ergast_fallback issues for a tool name, NoUrl when it issues none
FallbackUrl(tool_name) ==
    IF tool_name = Standings THEN StandingsUrl
    ELSE IF tool_name = Schedule THEN ScheduleUrl
    ELSE NoUrl

\* a slice one entry longer
TopOneMore(seq) == SubSeq(seq, 1, Min(TopN + 1, Len(seq)))

\* drivers[:10]
Top(seq) == SubSeq(seq, 1, Min(TopN, Len(seq)))

\* data['MRData']['StandingsTable']['StandingsLists'][0]['DriverStandings'] evaluates
StandingsPathOK(data) ==
    /\ "MRData" \in DOMAIN data
    /\ "StandingsTable" \in DOMAIN data.MRData
    /\ "StandingsLists" \in DOMAIN data.MRData.StandingsTable
    /\ Len(data.MRData.StandingsTable.StandingsLists) >= 1
    /\ "DriverStandings" \in DOMAIN data.MRData.StandingsTable.StandingsLists[1]

\* the five lookups of the list comprehension evaluate for this entry
DriverOK(driver) ==
    /\ "Driver" \in DOMAIN driver
    /\ {"code", "givenName", "familyName"} \subseteq DOMAIN driver.Driver
    /\ {"points", "position"} \subseteq DOMAIN driver

ProjectDriver(driver) ==
    [ driverCode |-> driver.Driver.code,
      givenName |-> driver.Driver.givenName,
      familyName |-> driver.Driver.familyName,
      points |-> driver.points,
      position |-> driver.position ]

\* the standings branch, once requests.get has produced reply
StandingsBranch(reply) ==
    IF reply.kind # "response" THEN Raised(FallbackError("ConnectionError"))
    ELSE IF reply.status_code # StatusOK THEN Returned(PyNone)
    ELSE IF ~reply.is_json THEN Raised(FallbackError("JSONDecodeError"))
    ELSE IF ~StandingsPathOK(reply.json) THEN Raised(FallbackError("KeyError"))
    ELSE LET drivers == reply.json.MRData.StandingsTable.StandingsLists[1].DriverStandings
             top == Top(drivers)
         IN  IF \E k \in 1..Len(top) : ~DriverOK(top[k])
             THEN Raised(FallbackError("KeyError"))
             ELSE Returned([ status |-> "success",
                             data |-> [drivers |->
                                 [k \in 1..Len(top) |-> ProjectDriver(top[k])]] ])

\* data['MRData']['RaceTable']['Races'] evaluates
SchedulePathOK(data) ==
    /\ "MRData" \in DOMAIN data
    /\ "RaceTable" \in DOMAIN data.MRData
    /\ "Races" \in DOMAIN data.MRData.RaceTable

RaceOK(race) ==
    /\ {"raceName", "date", "Circuit", "round"} \subseteq DOMAIN race
    /\ "circuitName" \in DOMAIN race.Circuit

ProjectRace(race) ==
    [ EventName |-> race.raceName,
      EventDate |-> race.date,
      CircuitName |-> race.Circuit.circuitName,
      RoundNumber |-> race.round ]

\* the schedule branch, once requests.get has produced reply
ScheduleBranch(reply) ==
    IF reply.kind # "response" THEN Raised(FallbackError("ConnectionError"))
    ELSE IF reply.status_code # StatusOK THEN Returned(PyNone)
    ELSE IF ~reply.is_json THEN Raised(FallbackError("JSONDecodeError"))
    ELSE IF ~SchedulePathOK(reply.json) THEN Raised(FallbackError("KeyError"))
    ELSE LET races == reply.json.MRData.RaceTable.Races
         IN  IF \E k \in 1..Len(races) : ~RaceOK(races[k])
             THEN Raised(FallbackError("KeyError"))
             ELSE Returned([ status |-> "success",
                             data |-> [k \in 1..Len(races) |-> ProjectRace(races[k])] ])

\* the body of the try block
FallbackTry(tool_name, reply) ==
    IF tool_name = Standings THEN StandingsBranch(reply)
    ELSE IF tool_name = Schedule THEN ScheduleBranch(reply)
    ELSE Returned(PyNone)

\* the try block without its except clause
ergast_fallback_no_except(tool_name, reply) == FallbackTry(tool_name, reply)

\* ergast_fallback: except Exception turns whatever the block raised into None
ergast_fallback(tool_name, reply) ==
    LET r == FallbackTry(tool_name, reply)
    IN  IF r.raised THEN Returned(PyNone) ELSE r

\* `if fallback_result:` a non-empty dict is true, None is false
Truthy(v) == v # PyNone

----------------------------------------------------------------------------
(* F1MCPBridge.call_tool_with_fallback and the /mcp/tool endpoint *)

Dispatches == 1..NumDispatch

\* the requests clients send
ToolInputs == {Standings, Schedule, "get_telemetry", "Get_Event_Schedule"}

NoArgs == [x \in {} |-> PyNone]
ArgInputs ==
    { NoArgs,
      [year |-> IntVal(FallbackYear)],
      [year |-> IntVal(FallbackYear - 1)],
      [year |-> StrVal("2024")] }

NoError == [type |-> "", origin |-> "", text |-> << >>]

Counters == [ tool_calls |-> tool_calls, successful_calls |-> successful_calls,
              errors_by_tool |-> errors_by_tool ]

IdleTask ==
    [ pc |-> "idle", tool_name |-> "", arguments |-> NoArgs, before |-> << >>,
      error |-> NoError, url |-> NoUrl, primary |-> "", primary_calls |-> 0,
      fallback_calls |-> 0,
      requests |-> 0, reply |-> NoReply, fallback_result |-> Returned(PyNone) ]

\* no response yet
NoResponse == [endpoint |-> "none"]

\* a dispatch is between its first line and its return: it holds the event loop
LoopBusy == \E d \in Dispatches : disp[d].pc # "idle"

\* a lookup that ignores the case of the first letter of a word
UnknownToolLax(tool_name) == tool_name \notin tool_functions \cup {"Get_Event_Schedule"}

\* tool_name not in tool_functions
UnknownTool(tool_name) == tool_name \notin tool_functions

\* a fallback gate that accepts any year
AnyYearEligible(arguments) == DictGet(arguments, "year") # PyNone

\* arguments.get('year') == 2024
FallbackEligible(arguments) == DictGet(arguments, "year") = IntVal(FallbackYear)

\* a call counter written back from a read that saw no other dispatch
CallCountLost(n) == Min(n + 1, 1)

\* self.tool_calls += 1
CountCall(n) == n + 1

\* an except block that does not record the error
ErrorNotRecorded(errors, tool_name) == errors

\* an error record that forgets the count already there
RecordErrorNoGet(errors, tool_name) == DictSet(errors, tool_name, 1)

\* self.errors_by_tool[tool_name] = self.errors_by_tool.get(tool_name, 0) + 1
RecordError(errors, tool_name) ==
    DictSet(errors, tool_name, CountGet(errors, tool_name) + 1)

\* a primary success counted twice
SuccessCountedTwice(n) == n + 2

\* a primary success that is not counted
SuccessNotCounted(n) == n

\* self.successful_calls += 1 after the primary returned
CountSuccess(n) == n + 1

\* /mcp/tool: return {"status": "success", "data": result}
ToolSuccess(task, result, after) ==
    [ endpoint |-> "/mcp/tool", http_status |-> 200, outcome |-> "Success",
      body |-> [status |-> "success", data |-> result],
      task |-> task, after |-> after ]

\* /mcp/tool: raise HTTPException(status_code=500, detail=str(e))
ToolFailure(task, e, after) ==
    [ endpoint |-> "/mcp/tool", http_status |-> 500, outcome |-> "Failure",
      body |-> [detail |-> e.text], error |-> e,
      task |-> task, after |-> after ]

\* the end of the except block, reporting the fallback's failure instead of e
AfterFallbackMasked(task, r, after) ==
    LET t == [task EXCEPT !.fallback_result = r]
    IN  IF r.raised \/ ~Truthy(r.value)
        THEN ToolFailure(t, FallbackError("FallbackUnavailable"), after)
        ELSE ToolSuccess(t, r.value, after)

\* the end of the except block, once ergast_fallback has produced r:
\* a true result is returned, otherwise `raise e`; an exception out of
\* ergast_fallback itself would propagate in place of e
AfterFallback(task, r, after) ==
    LET t == [task EXCEPT !.fallback_result = r]
    IN  IF r.raised THEN ToolFailure(t, r.error, after)
        ELSE IF Truthy(r.value) THEN ToolSuccess(t, r.value, after)
        ELSE ToolFailure(t, task.error, after)

\* self.tool_calls += 1; the handler then runs on without yielding
Begin(d, tool_name, arguments) ==
    /\ ~LoopBusy
    /\ tool_calls < MaxCalls
    /\ tool_calls' = CountCall(tool_calls)
    /\ disp' = [disp EXCEPT ![d] =
            [IdleTask EXCEPT !.pc = "primary", !.tool_name = tool_name,
                             !.arguments = arguments, !.before = Counters]]
    /\ response' = NoResponse
    /\ history' = [history EXCEPT !.started = @ + 1]
    /\ UNCHANGED <<successful_calls, errors_by_tool, start_time, now, tokens, stream>>

\* call_mcp_tool returns: the success is counted and the result returned
PrimaryReturns(d) ==
    /\ disp[d].pc = "primary"
    /\ ~UnknownTool(disp[d].tool_name)
    /\ LET task == [disp[d] EXCEPT !.pc = "done", !.primary = "returned",
                               !.primary_calls = @ + 1]
           succ == CountSuccess(successful_calls)
       IN  /\ successful_calls' = succ
           /\ response' = ToolSuccess(task,
                              PrimaryResult(task.tool_name, task.arguments),
                              [Counters EXCEPT !.successful_calls = succ])
    /\ disp' = [disp EXCEPT ![d] = IdleTask]
    /\ UNCHANGED <<history, tool_calls, errors_by_tool, start_time, now, tokens, stream>>

\* call_mcp_tool raises (unknown tool, or the data function raised): the error
\* is recorded; then either the fallback issues its request, or the dispatch ends
PrimaryRaises(d) ==
    /\ disp[d].pc = "primary"
    /\ LET name == disp[d].tool_name
           e == IF UnknownTool(name) THEN UnknownToolError(name)
                ELSE CapabilityError(name)
           errs == RecordError(errors_by_tool, name)
           after == [Counters EXCEPT !.errors_by_tool = errs]
           task == [disp[d] EXCEPT !.primary = "raised", !.error = e,
                                   !.primary_calls = @ + 1]
       IN  /\ errors_by_tool' = errs
           /\ IF ~FallbackEligible(task.arguments)
              THEN /\ response' = ToolFailure([task EXCEPT !.pc = "done"], e, after)
                   /\ disp' = [disp EXCEPT ![d] = IdleTask]
              ELSE IF FallbackUrl(name) = NoUrl
              THEN /\ response' =
                        AfterFallback([task EXCEPT !.pc = "done", !.fallback_calls = @ + 1],
                                      ergast_fallback(name, NoReply), after)
                   /\ disp' = [disp EXCEPT ![d] = IdleTask]
              ELSE /\ disp' = [disp EXCEPT ![d] =
                            [task EXCEPT !.pc = "fallback", !.fallback_calls = @ + 1,
                                         !.url = FallbackUrl(name), !.requests = @ + 1]]
                   /\ UNCHANGED response
           /\ history' = [history EXCEPT !.raised =
                    DictSet(@, name, CountGet(@, name) + 1)]
    /\ UNCHANGED <<tool_calls, successful_calls, start_time, now, tokens, stream>>

\* a fallback that asks the upstream a second time when the first answer gave nothing
FallbackRepliesRetry(d, reply) ==
    /\ disp[d].pc = "fallback"
    /\ reply \in UpstreamReplies(disp[d].url)
    /\ LET r == ergast_fallback(disp[d].tool_name, reply)
       IN  IF ~Truthy(r.value) /\ disp[d].requests < 2
           THEN /\ disp' = [disp EXCEPT ![d].requests = @ + 1, ![d].fallback_calls = @ + 1]
                /\ UNCHANGED response
           ELSE /\ response' = AfterFallback([disp[d] EXCEPT !.pc = "done", !.reply = reply],
                                             r, Counters)
                /\ disp' = [disp EXCEPT ![d] = IdleTask]
    /\ UNCHANGED <<history, tool_calls, successful_calls, errors_by_tool, start_time, now,
                   tokens, stream>>

\* requests.get comes back (it has no timeout: nothing makes it come back)
FallbackReplies(d, reply) ==
    /\ disp[d].pc = "fallback"
    /\ reply \in UpstreamReplies(disp[d].url)
    /\ response' = AfterFallback([disp[d] EXCEPT !.pc = "done", !.reply = reply],
                                 ergast_fallback(disp[d].tool_name, reply), Counters)
    /\ disp' = [disp EXCEPT ![d] = IdleTask]
    /\ UNCHANGED <<history, tool_calls, successful_calls, errors_by_tool, start_time, now,
                   tokens, stream>>

----------------------------------------------------------------------------
(* F1MCPBridge.get_health_metrics and the /health endpoint *)

\* a quotient num/den kept exact; den = 0 stands for ZeroDivisionError
SuccessRateNoGuard(successful, total) == [num |-> successful * 100, den |-> total]

\* (successful_calls / tool_calls * 100) if tool_calls > 0 else 0
SuccessRate(successful, total) ==
    IF total > 0 THEN [num |-> successful * 100, den |-> total]
    ELSE [num |-> 0, den |-> 1]

get_health_metrics ==
    [ status |-> "healthy",
      uptime |-> now - start_time,
      tool_calls |-> tool_calls,
      success_rate |-> SuccessRate(successful_calls, tool_calls),
      errors |-> errors_by_tool ]

HealthCheck ==
    /\ ~LoopBusy
    /\ response' = [endpoint |-> "/health", http_status |-> 200,
                    body |-> get_health_metrics]
    /\ UNCHANGED <<history, tool_calls, successful_calls, errors_by_tool, start_time, now,
                   disp, tokens, stream>>

----------------------------------------------------------------------------
(* F1MCPBridge.generate_jwt, verify_jwt and the /auth/token endpoint *)

jwt_secret == "cursor-f1-mcp-secret-key"

UserIds == {"f1-user", "f1-admin"}

\* HS256 over the payload: equal exactly when key and payload are equal
Sign(payload, key) == <<"HS256", key, payload>>

\* jwt.encode(payload, key, algorithm="HS256")
JwtEncode(payload, key) == [payload |-> payload, signature |-> Sign(payload, key)]

\* a token whose expiry is the time of issue
generate_jwt_no_lifetime(user_id, at) ==
    JwtEncode([user_id |-> user_id, exp |-> at], jwt_secret)

\* payload = {"user_id": user_id, "exp": utcnow() + timedelta(hours=1)}
generate_jwt(user_id, at) ==
    JwtEncode([user_id |-> user_id, exp |-> at + TokenLifetime], jwt_secret)

Unauthorized == [type |-> "HTTPException", status_code |-> 401, detail |-> "Invalid token"]

\* a verification that does not look at the expiry
verify_jwt_no_expiry(token, at, valid_at_expiry) ==
    IF token.signature # Sign(token.payload, jwt_secret) THEN Raised(Unauthorized)
    ELSE Returned(token.payload)

\* jwt.decode(token, key, algorithms=["HS256"]); InvalidTokenError (a bad
\* signature, an expired token) becomes HTTPException(401).  Whether the very
\* second of expiry still verifies differs between releases of the library:
\* valid_at_expiry is that choice.
verify_jwt(token, at, valid_at_expiry) ==
    IF token.signature # Sign(token.payload, jwt_secret) THEN Raised(Unauthorized)
    ELSE IF at > token.payload.exp THEN Raised(Unauthorized)
    ELSE IF at = token.payload.exp /\ ~valid_at_expiry THEN Raised(Unauthorized)
    ELSE Returned(token.payload)

\* what a holder can make of a token without the key
Tampered(token) ==
    { [token EXCEPT !.payload.user_id = "f1-admin"],
      [token EXCEPT !.payload.exp = @ + TokenLifetime] } \ {token}

\* GET /auth/token, and generate_jwt called for another identity
IssueToken(user_id) ==
    /\ ~LoopBusy
    /\ Cardinality(tokens) < MaxTokens
    /\ LET t == generate_jwt(user_id, now)
       IN  /\ tokens' = tokens \cup {[token |-> t, user_id |-> user_id, issued_at |-> now]}
           /\ response' = [endpoint |-> "/auth/token", http_status |-> 200,
                           body |-> [token |-> t], user_id |-> user_id, at |-> now]
    /\ UNCHANGED <<history, tool_calls, successful_calls, errors_by_tool, start_time, now,
                   disp, stream>>

\* a client discards its token
ForgetToken(held) ==
    /\ held \in tokens
    /\ tokens' = tokens \ {held}
    /\ UNCHANGED <<history, tool_calls, successful_calls, errors_by_tool, start_time, now,
                   disp, response, stream>>

\* verify_jwt on a token a client presents, as issued or tampered with
VerifyToken(held, token, valid_at_expiry) ==
    /\ ~LoopBusy
    /\ held \in tokens
    /\ token \in {held.token} \cup Tampered(held.token)
    /\ response' = [endpoint |-> "verify_jwt", held |-> held, token |-> token,
                    at |-> now, result |-> verify_jwt(token, now, valid_at_expiry)]
    /\ UNCHANGED <<history, tool_calls, successful_calls, errors_by_tool, start_time, now,
                   disp, tokens, stream>>

\* time passes
Tick(t) ==
    /\ t \in ClockPoints
    /\ t > now
    /\ now' = t
    /\ UNCHANGED <<history, tool_calls, successful_calls, errors_by_tool, start_time,
                   disp, response, tokens, stream>>

----------------------------------------------------------------------------
(* websocket_endpoint: the /mcp/stream task *)

\* beat flips with every heartbeat sent; sleep is what asyncio.sleep still waits
StreamInit ==
    [ state |-> "Connecting", pc |-> "accept", peer |-> "connected",
      beat |-> FALSE, sent |-> "", sleep |-> 0, ended |-> "" ]

\* await websocket.accept(): the connection is open from here on; a peer that
\* has already left is noticed by the first send_text
Accept ==
    /\ ~LoopBusy
    /\ stream.pc = "accept"
    /\ stream' = [stream EXCEPT !.state = "Open", !.pc = "send"]
    /\ UNCHANGED <<history, tool_calls, successful_calls, errors_by_tool, start_time, now,
                   disp, response, tokens>>

\* a loop that goes on sending after a send has failed
SendHeartbeatUnguarded ==
    /\ ~LoopBusy
    /\ stream.pc \in {"send", "end"}
    /\ stream' = [stream EXCEPT !.pc = "sleep", !.beat = ~@, !.sent = "heartbeat",
                                !.sleep = HeartbeatInterval]
    /\ UNCHANGED <<history, tool_calls, successful_calls, errors_by_tool, start_time, now,
                   disp, response, tokens>>

\* await websocket.send_text(heartbeat), then asyncio.sleep(30) is entered
SendHeartbeat ==
    /\ ~LoopBusy
    /\ stream.pc = "send"
    /\ stream.peer = "connected"
    /\ stream' = [stream EXCEPT !.pc = "sleep",
                                !.beat = ~@,
                                !.sent = "heartbeat",
                                !.sleep = HeartbeatInterval]
    /\ UNCHANGED <<history, tool_calls, successful_calls, errors_by_tool, start_time, now,
                   disp, response, tokens>>

\* send_text on a connection the peer has left raises: WebSocketDisconnect is
\* caught and logged, any other exception ends the task uncaught
SendFails(how) ==
    /\ ~LoopBusy
    /\ stream.pc = "send"
    /\ stream.peer = "gone"
    /\ how \in {"WebSocketDisconnect", "error"}
    /\ stream' = [stream EXCEPT !.state = "Closed", !.pc = "end", !.ended = how]
    /\ UNCHANGED <<history, tool_calls, successful_calls, errors_by_tool, start_time, now,
                   disp, response, tokens>>

\* asyncio.sleep(30) returns
Wake ==
    /\ ~LoopBusy
    /\ stream.pc = "sleep"
    /\ stream' = [stream EXCEPT !.pc = "send", !.sleep = 0]
    /\ UNCHANGED <<history, tool_calls, successful_calls, errors_by_tool, start_time, now,
                   disp, response, tokens>>

\* the peer leaves
PeerDisconnect ==
    /\ stream.state # "Closed"
    /\ stream.peer = "connected"
    /\ stream' = [stream EXCEPT !.peer = "gone"]
    /\ UNCHANGED <<history, tool_calls, successful_calls, errors_by_tool, start_time, now,
                   disp, response, tokens>>

----------------------------------------------------------------------------
(* The program *)

Init ==
    /\ tool_calls = 0
    /\ successful_calls = 0
    /\ errors_by_tool = EmptyDict
    /\ start_time = 0
    /\ now = 0
    /\ disp = [d \in Dispatches |-> IdleTask]
    /\ response = NoResponse
    /\ tokens = {}
    /\ stream = StreamInit
    /\ history = [started |-> 0, raised |-> EmptyDict]

\* /mcp/tool and /health
DispatchNext ==
    \/ \E d \in Dispatches, n \in ToolInputs, a \in ArgInputs : Begin(d, n, a)
    \/ \E d \in Dispatches : PrimaryReturns(d)
    \/ \E d \in Dispatches : PrimaryRaises(d)
    \/ \E d \in Dispatches : \E r \in UpstreamReplies(disp[d].url) : FallbackReplies(d, r)
    \/ HealthCheck

\* /mcp/stream
StreamNext ==
    \/ Accept
    \/ SendHeartbeat
    \/ \E how \in {"WebSocketDisconnect", "error"} : SendFails(how)
    \/ Wake
    \/ PeerDisconnect

\* /auth/token, verify_jwt and the clock they read
AuthNext ==
    \/ \E u \in UserIds : IssueToken(u)
    \/ \E h \in tokens : ForgetToken(h)
    \/ \E h \in tokens : \E t \in {h.token} \cup Tampered(h.token), b \in BOOLEAN :
            VerifyToken(h, t, b)
    \/ \E t \in ClockPoints : Tick(t)

\* The tasks that share the event loop and the metrics: tool dispatches,
\* health reads and the stream.
Next == DispatchNext \/ StreamNext

Spec == Init /\ [][Next]_vars

\* The event loop runs every ready task, and the data function called by
\* call_mcp_tool returns or raises.  Nothing obliges the upstream to answer,
\* a client to send a request, or the peer to stay or leave.
FairSpec ==
    /\ Spec
    /\ WF_vars(\E d \in Dispatches : PrimaryReturns(d) \/ PrimaryRaises(d))
    /\ WF_vars(Accept)
    /\ WF_vars(SendHeartbeat)
    /\ WF_vars(\E how \in {"WebSocketDisconnect", "error"} : SendFails(how))
    /\ WF_vars(Wake)

\* The token endpoints share no state with the tasks above: generate_jwt and
\* verify_jwt read the secret and the clock only.
AuthSpec == Init /\ [][AuthNext]_vars

----------------------------------------------------------------------------
(* Properties *)

\* the last response is that of a finished dispatch
ToolDone == response.endpoint = "/mcp/tool"

\* the arguments of the request carry the integer 2024 under 'year'
YearIs2024(arguments) ==
    /\ "year" \in DOMAIN arguments
    /\ arguments["year"].t = "int"
    /\ arguments["year"].i = 2024

\* the names the registry holds, as call_mcp_tool lists them
RegistryKeys ==
    { "get_championship_standings", "get_event_schedule", "get_event_info",
      "get_session_results", "get_driver_info", "analyze_driver_performance",
      "compare_drivers", "get_telemetry" }

\* the finished dispatch found its primary raising and its fallback produced a value
Rescued ==
    /\ ToolDone
    /\ response.task.primary = "raised"
    /\ response.task.fallback_calls = 1
    /\ ~response.task.fallback_result.raised
    /\ response.task.fallback_result.value # PyNone

\* the error count of a name, before and after the finished dispatch
ErrBefore(name) == CountGet(response.task.before.errors_by_tool, name)
ErrAfter(name) == CountGet(response.after.errors_by_tool, name)

\* C1: a dispatch whose primary raised, whose arguments have year == 2024 and
\* whose fallback produced a value returns Success with the fallback payload
\* and has incremented successful_calls by exactly one.
C1_FallbackSuccessCounted ==
    (Rescued /\ YearIs2024(response.task.arguments)) =>
        /\ response.outcome = "Success"
        /\ response.body.data = response.task.fallback_result.value
        /\ response.after.successful_calls = response.task.before.successful_calls + 1

\* C2: the fallback is invoked exactly when the primary raised and year == 2024;
\* with any other year value or no year, a primary error ends the dispatch as
\* Failure and no request goes to the fallback upstream.
C2_FallbackOnlyFor2024 ==
    /\ \A d \in Dispatches :
          disp[d].fallback_calls >= 1 =>
              (disp[d].primary = "raised" /\ YearIs2024(disp[d].arguments))
    /\ ToolDone =>
          /\ (response.task.fallback_calls = 1) <=>
                (response.task.primary = "raised" /\ YearIs2024(response.task.arguments))
          /\ response.task.fallback_calls \in {0, 1}
          /\ (response.task.primary = "raised" /\ ~YearIs2024(response.task.arguments)) =>
                /\ response.outcome = "Failure"
                /\ response.task.requests = 0
                /\ response.task.url = NoUrl

\* a primary error with year "2024" (a string) ended as Failure
C2_Witness ==
    /\ ToolDone
    /\ response.task.primary = "raised"
    /\ response.task.arguments = [year |-> StrVal("2024")]
    /\ response.task.tool_name = Standings
    /\ response.outcome = "Failure"

\* C3: a dispatch of a name that is no key of the registry returns Failure
\* whose message says 'Unknown tool' and the name; total_calls is one higher,
\* successful_calls unchanged, errors_by_tool[name] one higher.
C3_UnknownToolFails ==
    (ToolDone /\ response.task.tool_name \notin RegistryKeys) =>
        /\ response.outcome = "Failure"
        /\ response.http_status = 500
        /\ response.body.detail = <<"Unknown tool: ", response.task.tool_name>>
        /\ response.after.tool_calls = response.task.before.tool_calls + 1
        /\ response.after.successful_calls = response.task.before.successful_calls
        /\ ErrAfter(response.task.tool_name) = ErrBefore(response.task.tool_name) + 1

\* an unknown name sent with year 2024 has failed, after an earlier error of it
C3_Witness ==
    /\ ToolDone
    /\ response.task.tool_name = "Get_Event_Schedule"
    /\ YearIs2024(response.task.arguments)
    /\ response.outcome = "Failure"
    /\ ErrAfter("Get_Event_Schedule") = 2

\* C4: a dispatch whose primary returns normally returns Success with the
\* primary's result, has incremented successful_calls exactly once, leaves
\* errors_by_tool as it was, and does not invoke the fallback.
C4_PrimarySuccess ==
    (ToolDone /\ response.task.primary = "returned") =>
        /\ response.outcome = "Success"
        /\ response.body.data =
              PrimaryResult(response.task.tool_name, response.task.arguments)
        /\ response.after.successful_calls = response.task.before.successful_calls + 1
        /\ response.after.errors_by_tool = response.task.before.errors_by_tool
        /\ response.task.fallback_calls = 0
        /\ response.task.requests = 0

\* a year-2024 standings request served by the primary, after an earlier error
C4_Witness ==
    /\ ToolDone
    /\ response.task.primary = "returned"
    /\ response.task.tool_name = Standings
    /\ YearIs2024(response.task.arguments)
    /\ ErrBefore(Standings) = 1
    /\ response.outcome = "Success"

\* C5: a dispatch whose primary raises increments errors_by_tool[name] exactly
\* once (and no other entry); when the fallback rescues the request the
\* dispatch ends as Success with errors_by_tool[name] still one higher.
C5_ErrorCountedOnce ==
    /\ \A d \in Dispatches :
          disp[d].pc = "fallback" =>
              CountGet(errors_by_tool, disp[d].tool_name)
                  = CountGet(disp[d].before.errors_by_tool, disp[d].tool_name) + 1
    /\ (ToolDone /\ response.task.primary = "raised") =>
          /\ ErrAfter(response.task.tool_name) = ErrBefore(response.task.tool_name) + 1
          /\ \A n \in ToolInputs \ {response.task.tool_name} : ErrAfter(n) = ErrBefore(n)
          /\ Rescued => response.outcome = "Success"

\* a rescued dispatch of a tool that already had one error recorded
C5_Witness ==
    /\ Rescued
    /\ YearIs2024(response.task.arguments)
    /\ response.outcome = "Success"
    /\ ErrBefore(response.task.tool_name) = 1
    /\ ErrAfter(response.task.tool_name) = 2

\* the fallback was invoked and returned None
NotHandled ==
    /\ ToolDone
    /\ response.task.primary = "raised"
    /\ response.task.fallback_calls = 1
    /\ ~response.task.fallback_result.raised
    /\ response.task.fallback_result.value = PyNone

\* C6: when the primary raises with year == 2024 and the fallback returns
\* 'not handled', the dispatch returns Failure carrying the primary's own
\* error, never one from the fallback and never a Success; successful_calls
\* is unchanged.
C6_NotHandledKeepsPrimaryError ==
    (NotHandled /\ YearIs2024(response.task.arguments)) =>
        /\ response.outcome = "Failure"
        /\ response.error = response.task.error
        /\ response.error.origin = "primary"
        /\ response.body.detail = response.task.error.text
        /\ response.after.successful_calls = response.task.before.successful_calls

\* the upstream answered 404 to a standings fallback
C6_Witness ==
    /\ NotHandled
    /\ response.task.tool_name = Standings
    /\ response.task.reply.kind = "response"
    /\ response.task.reply.status_code = 404
    /\ response.outcome = "Failure"

\* the upstream's reply is one the fallback cannot use: a transport error, a
\* status that is no success, a body that is no JSON, JSON of another shape
UnusableReply(tool_name, reply) ==
    \/ reply.kind = "transport_error"
    \/ /\ reply.kind = "response"
       /\ \/ reply.status_code \notin 200..299
          \/ ~reply.is_json
          \/ reply.json \in {OtherJson, StandingsJsonNoList}
          \/ /\ tool_name = Standings
             /\ reply.json \in {StandingsJson(DriverListBadAt(n, 1)) : n \in ListLengths \ {0}}
          \/ /\ tool_name = Schedule
             /\ reply.json = ScheduleJson(RaceListBadAt(MaxDrivers, MaxDrivers))

\* C7: ergast_fallback never raises to its caller: for a name other than the
\* two it supports it returns 'not handled' without a network request, and for
\* a supported name a transport error, a non-success status or a shape
\* mismatch becomes 'not handled'.
C7_FallbackNeverRaises ==
    (ToolDone /\ response.task.fallback_calls = 1) =>
        /\ ~response.task.fallback_result.raised
        /\ response.task.tool_name \notin {Standings, Schedule} =>
              /\ response.task.fallback_result.value = PyNone
              /\ response.task.requests = 0
              /\ response.task.reply = NoReply
        /\ (/\ response.task.tool_name \in {Standings, Schedule}
            /\ UnusableReply(response.task.tool_name, response.task.reply)) =>
              response.task.fallback_result.value = PyNone

\* a schedule fallback whose upstream list holds a race without a date
C7_Witness ==
    /\ NotHandled
    /\ response.task.tool_name = Schedule
    /\ response.task.reply.kind = "response"
    /\ response.task.reply.status_code = 200
    /\ response.task.reply.is_json
    /\ response.task.reply.json = ScheduleJson(RaceListBadAt(MaxDrivers, MaxDrivers))

\* the rate r lies between 0 and 100 and is no division error
RateInRange(r) == r.den > 0 /\ 0 <= r.num /\ r.num <= 100 * r.den

\* C8: in every reachable state the health snapshot's success_rate is 0 when
\* total_calls is 0 (no division error), otherwise successful_calls /
\* total_calls x 100, and so lies between 0 and 100.
C8_SuccessRate ==
    /\ LET r == get_health_metrics.success_rate
       IN  /\ RateInRange(r)
           /\ tool_calls = 0 => r.num = 0
           /\ tool_calls > 0 => r.num * tool_calls = successful_calls * 100 * r.den
    /\ response.endpoint = "/health" =>
          /\ RateInRange(response.body.success_rate)
          /\ response.body.tool_calls = 0 => response.body.success_rate.num = 0

\* /health has answered 50 after one success in two calls
C8_Witness ==
    /\ response.endpoint = "/health"
    /\ response.body.tool_calls = 2
    /\ response.body.success_rate.num = 50 * response.body.success_rate.den
    /\ successful_calls = 1

\* the last response is verify_jwt's, for a token presented as it was issued
VerifiedUnmodified ==
    /\ response.endpoint = "verify_jwt"
    /\ response.token = response.held.token

\* C9: a token issued for user_id at time t0 carries the expiry t0 + 1 hour;
\* verified unmodified before that expiry it yields claims with the original
\* user_id, verified after it it yields Invalid (401, no claims).
C9_TokenWindow ==
    /\ response.endpoint = "/auth/token" =>
          /\ response.body.token.payload.exp = response.at + TokenLifetime
          /\ response.body.token.payload.user_id = response.user_id
    /\ \A h \in tokens :
          /\ h.token.payload.exp = h.issued_at + TokenLifetime
          /\ h.token.payload.user_id = h.user_id
    /\ VerifiedUnmodified =>
          /\ response.at < response.held.issued_at + TokenLifetime =>
                /\ ~response.result.raised
                /\ response.result.value.user_id = response.held.user_id
          /\ response.at > response.held.issued_at + TokenLifetime =>
                /\ response.result.raised
                /\ response.result.error.status_code = 401

\* a token issued one second after start is refused one second after its expiry
C9_Witness ==
    /\ VerifiedUnmodified
    /\ response.held.issued_at = 1
    /\ response.at = response.held.issued_at + TokenLifetime + 1
    /\ response.result.raised

\* the stream is open and its peer has not left
StreamUp == stream.state = "Open" /\ stream.peer = "connected"

\* C10: while the stream is Open and does not drop, heartbeats go on without
\* end: after accept, and after every heartbeat, another heartbeat is
\* eventually sent unless the connection drops.
C10_HeartbeatsContinue ==
    \A b \in BOOLEAN :
        (StreamUp /\ stream.beat = b) ~> (stream.beat # b \/ ~StreamUp)

\* C11: the stream goes Connecting -> Open -> Closed only: Open is entered
\* only by accept, Open is left only for Closed and only when a send fails
\* because the peer has left, Closed is never left, and a heartbeat is sent
\* only while Open (none in Connecting, none after Closed).
C11_StreamLifecycle ==
    [][ /\ (stream.state # "Open" /\ stream'.state = "Open") =>
              (stream.state = "Connecting" /\ stream.pc = "accept")
        /\ (stream.state = "Connecting" /\ stream'.state # "Connecting") =>
              stream'.state = "Open"
        /\ (stream.state = "Open" /\ stream'.state # "Open") =>
              (stream'.state = "Closed" /\ stream.peer = "gone" /\ stream.pc = "send")
        /\ stream.state = "Closed" => stream' = stream
        /\ stream'.beat # stream.beat =>
              (stream.state = "Open" /\ stream'.state = "Open")
      ]_vars

\* the stream was closed by a failed send after a heartbeat had gone out
C11_Witness ==
    /\ stream.state = "Closed"
    /\ stream.ended = "WebSocketDisconnect"
    /\ stream.sent = "heartbeat"
    /\ stream.beat

\* the finished dispatch was of a name that is no key of the registry
UnknownDone == ToolDone /\ response.task.tool_name \notin RegistryKeys

\* C12 as stated: for a dispatch of a name that is not in the registry the
\* fallback provider is never invoked, even with year == 2024.
C12_FallbackNeverInvokedForUnknown ==
    UnknownDone => response.task.fallback_calls = 0

\* C12, amended: for a dispatch of a name that is not in the registry no
\* request to the fallback upstream is ever issued, even with year == 2024:
\* ergast_fallback is called then (once), returns 'not handled' without a
\* network call, and the dispatch returns Failure with the unknown-tool error;
\* with any other year ergast_fallback is not called.
C12_NoUpstreamRequestForUnknown ==
    /\ \A d \in Dispatches : disp[d].pc = "fallback" => disp[d].tool_name \in RegistryKeys
    /\ UnknownDone =>
          /\ response.task.requests = 0
          /\ response.task.url = NoUrl
          /\ response.task.reply = NoReply
          /\ response.outcome = "Failure"
          /\ response.error = UnknownToolError(response.task.tool_name)
          /\ YearIs2024(response.task.arguments) =>
                /\ response.task.fallback_calls = 1
                /\ response.task.fallback_result = Returned(PyNone)
          /\ ~YearIs2024(response.task.arguments) => response.task.fallback_calls = 0

\* an unknown name sent with year 2024 has gone through ergast_fallback and failed
C12_Witness ==
    /\ UnknownDone
    /\ YearIs2024(response.task.arguments)
    /\ response.task.fallback_calls = 1
    /\ response.task.requests = 0
    /\ response.outcome = "Failure"

\* C13: no counter update is lost: in every reachable state tool_calls equals
\* the number of dispatches started, and once all dispatches have completed
\* errors_by_tool[name] equals the number of dispatches of that name whose
\* primary attempt raised.
C13_NoLostUpdate ==
    /\ tool_calls = history.started
    /\ ~LoopBusy =>
          /\ DOMAIN errors_by_tool = DOMAIN history.raised
          /\ \A name \in ToolInputs :
                CountGet(errors_by_tool, name) = CountGet(history.raised, name)

\* two dispatches of one name have both raised and both are counted
C13_Witness ==
    /\ ~LoopBusy
    /\ history.started = MaxCalls
    /\ \E name \in ToolInputs : CountGet(history.raised, name) = 2
                                /\ CountGet(errors_by_tool, name) = 2

\* every entry of the older dict is in the newer one with a count at least as large
DictGrows(old, new) ==
    /\ DOMAIN old \subseteq DOMAIN new
    /\ \A k \in DOMAIN old : old[k] <= new[k]

\* C14: in every reachable state successful_calls <= tool_calls, and tool_calls,
\* successful_calls and every errors_by_tool entry never decrease from one
\* state to the next.
C14_CountersMonotonic ==
    [][ /\ successful_calls <= tool_calls
        /\ successful_calls' <= tool_calls'
        /\ tool_calls <= tool_calls'
        /\ successful_calls <= successful_calls'
        /\ DictGrows(errors_by_tool, errors_by_tool') ]_vars

\* a health read after one dispatch that succeeded and one that raised
C14_Witness ==
    /\ response.endpoint = "/health"
    /\ response.body.tool_calls = 2
    /\ response.body.errors # EmptyDict
    /\ successful_calls = 1

\* a dispatch is inside its primary invocation or inside the fallback's network call
Waiting(d) == disp[d].pc \in {"primary", "fallback"}

\* C15: the primary invocation and the fallback network call yield the event
\* loop: while a dispatch is waiting there, health reads, other dispatches and
\* the heartbeat task can take their steps.
C15_LoopYieldedWhileWaiting ==
    (\E d \in Dispatches : Waiting(d)) =>
        /\ ENABLED HealthCheck
        /\ tool_calls < MaxCalls =>
              ENABLED (\E d \in Dispatches, n \in ToolInputs, a \in ArgInputs : Begin(d, n, a))
        /\ stream.pc = "accept" => ENABLED Accept
        /\ stream.pc = "sleep" => ENABLED Wake
        /\ (stream.pc = "send" /\ stream.peer = "connected") => ENABLED SendHeartbeat

\* C16: a dispatch that has reached the fallback step always completes, even
\* if the upstream never responds.
C16_FallbackStepCompletes ==
    \A d \in Dispatches : (disp[d].pc = "fallback") ~> (disp[d].pc = "idle")

\* what one dispatch has done so far
AtMostOnce(task) ==
    /\ task.primary_calls <= 1
    /\ task.fallback_calls <= 1
    /\ task.requests <= 1
    /\ task.requests <= task.fallback_calls

\* no dispatch, in progress or finished, has gone beyond one attempt of each kind
AttemptsBounded ==
    /\ \A d \in Dispatches : AtMostOnce(disp[d])
    /\ ToolDone => (AtMostOnce(response.task) /\ response.task.primary_calls = 1)

\* C17: within one dispatch the fallback provider is invoked at most once and
\* issues at most one request; a fallback that fails or returns 'not handled'
\* is never retried, and the primary is invoked at most once.
C17_AtMostOneAttempt ==
    [][ /\ AttemptsBounded
        /\ AttemptsBounded'
        /\ \A d \in Dispatches :
              (disp[d].pc = "fallback" /\ disp'[d] # disp[d]) => disp'[d].pc = "idle" ]_vars

\* a dispatch whose one request was answered with nothing usable has failed
C17_Witness ==
    /\ NotHandled
    /\ response.task.requests = 1
    /\ response.task.reply # NoReply
    /\ response.outcome = "Failure"

\* the finished dispatch was rescued by the standings fallback
StandingsRescued == Rescued /\ response.task.tool_name = Standings

\* the driver list the upstream sent to the finished dispatch
SentDrivers ==
    response.task.reply.json.MRData.StandingsTable.StandingsLists[1].DriverStandings

\* C18: the standings fallback returns the first min(10, n) of the upstream's n
\* drivers in upstream order, each with exactly the fields driverCode,
\* givenName, familyName, points, position; n >= 10 yields exactly 10 entries.
C18_StandingsTopTen ==
    StandingsRescued =>
        LET out == response.body.data.data.drivers
            n == Len(SentDrivers)
        IN  /\ Len(out) = (IF n < 10 THEN n ELSE 10)
            /\ n >= 10 => Len(out) = 10
            /\ \A k \in 1..Len(out) :
                  /\ DOMAIN out[k] =
                        {"driverCode", "givenName", "familyName", "points", "position"}
                  /\ out[k].driverCode = SentDrivers[k].Driver.code
                  /\ out[k].givenName = SentDrivers[k].Driver.givenName
                  /\ out[k].familyName = SentDrivers[k].Driver.familyName
                  /\ out[k].points = SentDrivers[k].points
                  /\ out[k].position = SentDrivers[k].position

\* eleven drivers were sent and ten came back
C18_Witness ==
    /\ StandingsRescued
    /\ Len(SentDrivers) = 11
    /\ Len(response.body.data.data.drivers) = 10

RECURSIVE SumValues(_)
\* sum(d.values())
SumValues(d) ==
    IF DOMAIN d = {} THEN 0
    ELSE LET k == CHOOSE x \in DOMAIN d : TRUE
         IN  d[k] + SumValues([x \in DOMAIN d \ {k} |-> d[x]])

\* the dispatches whose primary invocation has not yet returned
InPrimary == {d \in Dispatches : disp[d].pc = "primary"}

\* C19: in every reachable state
\* tool_calls <= successful_calls + sum of errors_by_tool + the number of
\* dispatches whose primary invocation has not yet returned.
C19_CallsAccounted ==
    tool_calls <= successful_calls + SumValues(errors_by_tool) + Cardinality(InPrimary)

\* nothing in flight, one success and one error account for two calls
C19_Witness ==
    /\ ~LoopBusy
    /\ tool_calls = 2
    /\ successful_calls = 1
    /\ SumValues(errors_by_tool) = 1

====
